---- MODULE Spec2Model ----
(***************************************************************************)
(* Model of GenerateShuffList.py: shufGen (pooled variant) and altshufGen  *)
(* (alternating variant).                                                  *)
(*                                                                         *)
(* Pool values.  np.linspace(5,95,n)[k] = 5 + 90*k/(n-1).  The model keeps *)
(* every pool value in units of 5/(n-1), i.e. the integer (n-1) + 18*k.    *)
(* The Pearson coefficient does not change under this positive rescaling.  *)
(*                                                                         *)
(* Correlations.  A coefficient r = num / sqrt(den) is kept as the record  *)
(* [num, den] with num = n*Sxy - Sx*Sy and den = (n*Sxx - Sx^2) *          *)
(* (n*Syy - Sy^2); den = 0 is scipy's nan (constant input).                *)
(*                                                                         *)
(* random.shuffle followed by iteration over the shuffled list is modelled *)
(* by drawing the next candidate from the set of values not yet visited:   *)
(* both produce exactly the n! visiting orders.                            *)
(***************************************************************************)
EXTENDS Integers, Sequences, FiniteSets, TLC

\* ---- inputs explored -----------------------------------------------------
PooledN == 5        \* shufGen is called with n in 4..PooledN
AltN == 8           \* altshufGen is called with n in 4..AltN
PooledGrow == 2     \* shufGen is called with leng = n or n + PooledGrow
PooledDeep == 5     \* SpecDeep also calls shufGen with leng = n + PooledDeep
AltGrow == 7        \* altshufGen is called with leng = n or n + AltGrow
AltOver == 6        \* SpecOver calls altshufGen with leng = n or n + AltOver

\* ---- constants of the program ---------------------------------------------
SeedTol == 100      \* seed loop runs while |r| > 1/100
PooledTol == 10     \* shufAdd keeps an element if |r| < 1/10
AltTol == 20        \* altshufAdd keeps an element if |r| < 1/20
PooledCap == 1000   \* shufGen gives up when count == 1000
AltCap == 10        \* altshufGen gives up when count == 10

VARIABLES
    variant,    \* "pooled" (shufGen) or "alt" (altshufGen)
    n, leng,    \* the arguments of the call
    pc,         \* position of the call
    start,      \* the seed array
    optGs,      \* optGs of the outer function
    corrs,      \* corrs of the outer function (meaningful once "corrs" is bound)
    count,      \* restart counter of the outer function
    lenGs,      \* the lengths appended to lenGs, as a set (only max(lenGs) is read)
    bestGs, bestcorrs,
    bound,      \* names among corrs, bestGs, bestcorrs that have been assigned
    addGs,      \* optGs inside shufAdd / altshufAdd
    addCorrs,   \* corrs inside shufAdd / altshufAdd
    addCount,   \* count inside shufAdd / altshufAdd
    adds,       \* adds inside shufAdd / altshufAdd
    shuf,       \* values of the list being iterated that are not yet visited
    half,       \* alt: 1 while iterating small, 2 while iterating big; pooled: 0
    kept        \* history: the values kept so far in the current round

vars == <<variant, n, leng, pc, start, optGs, corrs, count, lenGs, bestGs,
          bestcorrs, bound, addGs, addCorrs, addCount, adds, shuf, half, kept>>

\* ---- pure helpers ---------------------------------------------------------
RECURSIVE SumSeq(_)
SumSeq(s) == IF s = <<>> THEN 0 ELSE Head(s) + SumSeq(Tail(s))

Dot(x, y) == SumSeq([i \in 1..Len(x) |-> x[i] * y[i]])

Range(s) == {s[i] : i \in 1..Len(s)}

MaxOf(S) == CHOOSE m \in S : \A k \in S : k <= m

\* np.linspace(1,n,n)
phase(k) == [i \in 1..k |-> i]

\* np.linspace(5,95,n), in units of 5/(n-1)
Mono(k) == [i \in 1..k |-> (k - 1) + 18 * (i - 1)]

\* Mono[:int(n/2)] and Mono[int(n/2):]
small(k) == SubSeq(Mono(k), 1, k \div 2)
big(k) == SubSeq(Mono(k), (k \div 2) + 1, k)

\* Python s[-k:]  (s[-0:] is the whole list)
LastK(s, k) == IF k = 0 \/ k >= Len(s) THEN s ELSE SubSeq(s, Len(s) - k + 1, Len(s))

\* scipy.stats.pearsonr(x, y)[0]
pearsonr(x, y) ==
    LET m == Len(x)
    IN [num |-> m * Dot(x, y) - SumSeq(x) * SumSeq(y),
        den |-> (m * Dot(x, x) - SumSeq(x) * SumSeq(x))
                 * (m * Dot(y, y) - SumSeq(y) * SumSeq(y))]

\* np.abs(r) > 1/q ; false for nan
AbsGt(r, q) == r.den > 0 /\ r.num * r.num > r.den \div (q * q)

\* np.abs(r) < 1/q ; false for nan
AbsLt(r, q) == r.den > 0 /\ r.num * r.num <= (r.den - 1) \div (q * q)

RECURSIVE Perms(_)
Perms(S) == IF S = {} THEN {<<>>}
            ELSE UNION {{<<x>> \o p : p \in Perms(S \ {x})} : x \in S}

\* start[::2] = s ; start[1::2] = b   (equal lengths)
Interleave(s, b) == [i \in 1..(Len(s) + Len(b)) |->
                        IF i % 2 = 1 THEN s[(i + 1) \div 2] ELSE b[i \div 2]]

Tol == IF variant = "pooled" THEN PooledTol ELSE AltTol
Cap == IF variant = "pooled" THEN PooledCap ELSE AltCap

\* (variant) the window is one element too short
RecentShort(gs) == LastK(gs, (n \div 2) - 1)

\* optGs[-int(n/2):] : the anti-repetition window
Recent(gs) == LastK(gs, n \div 2)

\* (variant) the acceptance test compares with 0.5
KeepLoose(corr) == AbsLt(corr, 2)

\* (variant) the acceptance test uses 0.1 in both growers
KeepPooled(corr) == AbsLt(corr, PooledTol)

\* np.abs(corr) < 0.1 (shufAdd) / np.abs(corr) < 0.05 (altshufAdd)
Keep(corr) == AbsLt(corr, Tol)

\* (variant) the stall test is missing
StalledNever == FALSE

\* (variant) the break waits for one more round
StalledLate == addCount > adds + 1

\* count > adds : the round loop gives up
Stalled == addCount > adds

\* (variant) the give-up test is off by one
GiveUpLate == count = Cap + 1

\* count == 1000 (shufGen) / count == 10 (altshufGen)
GiveUp == count = Cap

\* (variant) the seed loop uses the growers' threshold 0.1
SeedBadLoose(s) == AbsGt(pearsonr(phase(n), s), PooledTol)

\* np.abs(pearsonr(phase,start)[0]) > 0.01 : the seed loop goes on
SeedBad(s) == AbsGt(pearsonr(phase(n), s), SeedTol)

\* (variant) the grower is handed the list of the previous attempt
SeedListReused == optGs

\* start.tolist() : the list handed to the grower
SeedList == start

\* (variant) the grower is handed an empty trace
SeedTraceEmpty == <<>>

\* [pearsonr(phase,start.tolist())[0]] : the trace handed to the grower
SeedTrace == <<pearsonr(phase(n), start)>>

\* (variant) the coefficient is taken before the element is appended
WindowStale(gs) == LastK(SubSeq(gs, 1, Len(gs) - 1), n)

\* optGs[-n:] : the window whose coefficient is tested
Window(gs) == LastK(gs, n)

\* (variant) the break after an accepted element is missing
BreakNever == FALSE

\* the break of altshufAdd after an accepted element (shufAdd has none)
BreakAfterKeep == variant = "alt"

\* (variant) the loops run while the list is not longer than the target
ShortOrEqual(gs) == Len(gs) <= leng

\* len(optGs) < leng : the loops go on
Short(gs) == Len(gs) < leng

\* the lists the seed loop can leave in start after a pass
SeedCandidates ==
    IF variant = "pooled"
    THEN Perms(Range(Mono(n)))
    ELSE {Interleave(sm, bg) : sm \in Perms(Range(small(n))),
                               bg \in Perms(Range(big(n)))}

\* ---- initial state: the call has built phase, Mono and start ---------------
Inputs ==
    {<<"pooled", k, l>> : k \in 4..PooledN, l \in {0, PooledGrow}}
    \cup {<<"alt", k, l>> : k \in 4..AltN, l \in {0, AltGrow}}

InputsDeep == Inputs \cup {<<"pooled", k, PooledDeep>> : k \in 4..PooledN}

InitWith(I) ==
    /\ \E c \in I :
          /\ variant = c[1]
          /\ n = c[2]
          /\ leng = c[2] + c[3]
          /\ start = IF c[1] = "pooled" THEN Mono(c[2])
                     ELSE [i \in 1..c[2] |-> i - 1]
    /\ pc = "seed"
    /\ optGs = <<>>
    /\ corrs = <<>>
    /\ count = 0
    /\ lenGs = {}
    /\ bestGs = <<>>
    /\ bestcorrs = <<>>
    /\ bound = {}
    /\ addGs = <<>>
    /\ addCorrs = <<>>
    /\ addCount = 0
    /\ adds = 0
    /\ shuf = {}
    /\ half = 0
    /\ kept = {}

Init == InitWith(Inputs)

InitDeep == InitWith(InputsDeep)

InputsOver ==
    {<<"pooled", k, l>> : k \in 4..PooledN, l \in {0, PooledGrow}}
    \cup {<<"alt", k, l>> : k \in 4..AltN, l \in {0, AltOver}}

InitOver == InitWith(InputsOver)

\* ---- seed search ------------------------------------------------------------
\* one pass of the seed loop body
SeedShuffle ==
    /\ pc = "seed"
    /\ SeedBad(start)
    /\ IF variant = "pooled"
       THEN /\ \E p \in Perms(Range(start)) : start' = p
            /\ pc' = "seed"
       ELSE IF n % 2 = 1
            THEN /\ pc' = "raised"      \* start[::2]=small: shapes differ
                 /\ start' = start
            ELSE /\ \E s \in Perms(Range(small(n))), b \in Perms(Range(big(n))) :
                        start' = Interleave(s, b)
                 /\ pc' = "seed"
    /\ UNCHANGED <<variant, n, leng, optGs, corrs, count, lenGs, bestGs, bestcorrs,
                   bound, addGs, addCorrs, addCount, adds, shuf, half, kept>>

\* the seed loop exits; optGs = start.tolist(); count = 0; lenGs = []
SeedFound ==
    /\ pc = "seed"
    /\ ~SeedBad(start)
    /\ optGs' = start
    /\ count' = 0
    /\ lenGs' = {}
    /\ pc' = "loop"
    /\ UNCHANGED <<variant, n, leng, start, corrs, bestGs, bestcorrs, bound,
                   addGs, addCorrs, addCount, adds, shuf, half, kept>>

\* ---- restart loop -------------------------------------------------------------
\* while len(optGs) < leng: count += 1; call the grower on fresh copies
LoopTest ==
    /\ pc = "loop"
    /\ IF Short(optGs)
       THEN /\ count' = count + 1
            /\ addGs' = SeedList
            /\ addCorrs' = SeedTrace
            /\ addCount' = 0
            /\ adds' = 0
            /\ pc' = "round"
       ELSE /\ pc' = "return"
            /\ UNCHANGED <<count, addGs, addCorrs, addCount, adds>>
    /\ UNCHANGED <<variant, n, leng, start, optGs, corrs, lenGs, bestGs, bestcorrs,
                   bound, shuf, half, kept>>

\* ---- the grower ---------------------------------------------------------------
\* while len(optGs) < leng: count += 1; shuffle
RoundStart ==
    /\ pc = "round"
    /\ IF Short(addGs)
       THEN /\ addCount' = addCount + 1
            /\ IF variant = "pooled"
               THEN shuf' = Range(Mono(n)) /\ half' = 0
               ELSE shuf' = Range(small(n)) /\ half' = 1
            /\ kept' = {}
            /\ pc' = "scan"
       ELSE /\ pc' = "attemptEnd"
            /\ UNCHANGED <<addCount, shuf, half, kept>>
    /\ UNCHANGED <<variant, n, leng, start, optGs, corrs, count, lenGs, bestGs,
                   bestcorrs, bound, addGs, addCorrs, adds>>

\* the for loop over the current list is exhausted
ScanEnd ==
    /\ pc = "scan"
    /\ shuf = {}
    /\ IF variant = "alt" /\ half = 1
       THEN /\ shuf' = Range(big(n))
            /\ half' = 2
            /\ pc' = "scan"
       ELSE /\ pc' = "roundEnd"
            /\ UNCHANGED <<shuf, half>>
    /\ UNCHANGED <<variant, n, leng, start, optGs, corrs, count, lenGs, bestGs,
                   bestcorrs, bound, addGs, addCorrs, addCount, adds, kept>>

\* for g in shuf: if g not in optGs[-int(n/2):]: optGs.append(g)
ScanNext ==
    /\ pc = "scan"
    /\ \E g \in shuf :
          /\ shuf' = shuf \ {g}
          /\ IF g \notin Range(Recent(addGs))
             THEN addGs' = Append(addGs, g) /\ pc' = "decide"
             ELSE addGs' = addGs /\ pc' = "scan"
    /\ UNCHANGED <<variant, n, leng, start, optGs, corrs, count, lenGs, bestGs,
                   bestcorrs, bound, addCorrs, addCount, adds, half, kept>>

\* corr = pearsonr(phase, optGs[-n:]); keep or remove the element
Decide ==
    /\ pc = "decide"
    /\ LET corr == pearsonr(phase(n), Window(addGs))
       IN IF Keep(corr)
          THEN /\ addCorrs' = Append(addCorrs, corr)
               /\ adds' = adds + 1
               /\ addGs' = addGs
               /\ kept' = kept \cup {addGs[Len(addGs)]}
               /\ IF BreakAfterKeep
                  THEN shuf' = {}
                  ELSE shuf' = shuf
          ELSE /\ addGs' = SubSeq(addGs, 1, Len(addGs) - 1)
               /\ UNCHANGED <<addCorrs, adds, shuf, kept>>
    /\ pc' = "scan"
    /\ UNCHANGED <<variant, n, leng, start, optGs, corrs, count, lenGs, bestGs,
                   bestcorrs, bound, addCount, half>>

\* if count > adds: break
RoundEnd ==
    /\ pc = "roundEnd"
    /\ pc' = IF Stalled THEN "attemptEnd" ELSE "round"
    /\ UNCHANGED <<variant, n, leng, start, optGs, corrs, count, lenGs, bestGs,
                   bestcorrs, bound, addGs, addCorrs, addCount, adds, shuf, half, kept>>

\* ---- back in the restart loop ---------------------------------------------------
\* (variant) every attempt is recorded as the best one
IsBestAlways(gs, lens) == TRUE

\* (variant) only a strictly longer attempt is recorded
IsBestStrict(gs, lens) == \A k \in lens : Len(gs) > k

\* (variant) the comparison is made before the length is appended to lenGs
IsBestStale(gs, lens) == lens # {} /\ Len(gs) = MaxOf(lens)

\* the condition  len(optGs) == max(lenGs)  after lenGs.append(len(optGs))
IsBest(gs, lens) == Len(gs) = MaxOf(lens \cup {Len(gs)})

\* optGs, corrs = grower(...); lenGs.append; best update; give-up test
AttemptEnd ==
    /\ pc = "attemptEnd"
    /\ lenGs' = lenGs \cup {Len(addGs)}
    /\ LET best == IsBest(addGs, lenGs)
           bGs == IF best THEN addGs ELSE bestGs
           bCs == IF best THEN addCorrs ELSE bestcorrs
       IN /\ bestGs' = bGs
          /\ bestcorrs' = bCs
          /\ bound' = IF best THEN bound \cup {"corrs", "bestGs", "bestcorrs"}
                      ELSE bound \cup {"corrs"}
          /\ IF GiveUp
             THEN /\ optGs' = bGs
                  /\ corrs' = bCs
                  /\ pc' = "return"
             ELSE /\ optGs' = addGs
                  /\ corrs' = addCorrs
                  /\ pc' = "loop"
    /\ UNCHANGED <<variant, n, leng, start, count, addGs, addCorrs, addCount,
                   adds, shuf, half, kept>>

\* return pd.DataFrame(optGs), pd.DataFrame(corrs)
Return ==
    /\ pc = "return"
    /\ pc' = IF "corrs" \in bound THEN "done" ELSE "raised"   \* UnboundLocalError
    /\ UNCHANGED <<variant, n, leng, start, optGs, corrs, count, lenGs, bestGs,
                   bestcorrs, bound, addGs, addCorrs, addCount, adds, shuf, half, kept>>

Next ==
    \/ SeedShuffle
    \/ SeedFound
    \/ LoopTest
    \/ RoundStart
    \/ ScanEnd
    \/ ScanNext
    \/ Decide
    \/ RoundEnd
    \/ AttemptEnd
    \/ Return

Spec == Init /\ [][Next]_vars

\* the same program, also run on a pooled target that takes several restarts
SpecDeep == InitDeep /\ [][Next]_vars

\* the same program, the alternating target being one a round can overshoot
SpecOver == InitOver /\ [][Next]_vars

\* ==== properties ================================================================
Returned == pc = "done"

\* every window of n consecutive elements of gs, with its coefficient
Windows(gs) == [k \in 1..(Len(gs) - n + 1) |->
                    pearsonr(phase(n), SubSeq(gs, k, k + n - 1))]

\* position i (0-based, i >= floor(n/2)) differs from positions i-floor(n/2)..i-1
NoRepeat(gs) ==
    \A i \in ((n \div 2) + 1)..Len(gs) : \A j \in (i - (n \div 2))..(i - 1) :
        gs[i] # gs[j]

C2_PooledBound ==
    (Returned /\ variant = "pooled") =>
        \A k \in 1..(Len(optGs) - n + 1) : AbsLt(Windows(optGs)[k], 10)

\* shufGen returns, at the restart cap, a best-so-far sequence longer than the seed
C2_Witness ==
    /\ Returned
    /\ variant = "pooled"
    /\ count = 1000
    /\ n < Len(optGs)
    /\ Len(optGs) < leng

RoundWeight == 4 * n + 8

\* more than the measure of one attempt
AttemptWeight == (leng + 3) * RoundWeight

AttemptsLeft == Cap - count

RoundsLeft == leng - n + 1 - addCount

StepsLeft ==
    LET later == IF variant = "alt" /\ half = 1 THEN 2 * Len(big(n)) + 1 ELSE 0
    IN CASE pc = "scan" -> 2 * Cardinality(shuf) + 1 + later
         [] pc = "decide" -> 2 * Cardinality(shuf) + 2 + later
         [] OTHER -> 0

Rank ==
    CASE pc = "return" -> 1
      [] pc = "loop" -> AttemptsLeft * AttemptWeight + 2
      [] pc = "attemptEnd" -> AttemptsLeft * AttemptWeight + 3
      [] pc = "round" -> AttemptsLeft * AttemptWeight + RoundsLeft * RoundWeight + 4
      [] pc \in {"scan", "decide", "roundEnd"} ->
            AttemptsLeft * AttemptWeight + RoundsLeft * RoundWeight + StepsLeft + 5
      [] OTHER -> 0

RankOK ==
    /\ AttemptsLeft >= 0
    /\ pc \in {"round", "scan", "decide", "roundEnd"} => RoundsLeft >= 0
    /\ StepsLeft + 1 < RoundWeight

\* C4. Termination: once the seed is found the call cannot run forever: every
\* step strictly decreases a natural-number measure made of the attempts left
\* before the cap, the rounds left in the attempt and the steps left in the
\* round (each of the three stays within its range, so the measure is >= 0).
\* Every position but "done" and "raised" has a step, by the form of the actions.
C4_Termination ==
    [][pc # "seed" => (Rank' < Rank /\ RankOK')]_vars

\* a pooled call that used all 1000 attempts, the last one ended by the stall break
C4_Witness ==
    /\ Returned
    /\ variant = "pooled"
    /\ count = 1000
    /\ addCount > adds

\* C5. Result length bounds (pooled): for leng >= n the sequence returned by
\* shufGen has at least n and at most leng elements.
C5_LengthBounds ==
    (Returned /\ variant = "pooled" /\ leng >= n) =>
        (n <= Len(optGs) /\ Len(optGs) <= leng)

\* C6. Idempotent shape: with leng = n the call, once the seed is found, makes no
\* growth attempt and returns normally the seed and a trace of length 1.
C6_IdempotentShape ==
    (leng = n /\ pc \in {"done", "raised"} /\ optGs # <<>>) =>
        (Returned /\ count = 0 /\ Len(optGs) = n /\ Len(corrs) = 1)

\* C7. Monotone best-tracking: the length of bestGs never decreases, and once an
\* attempt has completed bestGs is recorded and its length is the maximum of the
\* lengths of all completed attempts.
C7_BestTracking ==
    /\ [](lenGs # {} => ("bestGs" \in bound /\ Len(bestGs) = MaxOf(lenGs)))
    /\ [][Len(bestGs') >= Len(bestGs)]_vars

\* attempts of different lengths have completed and the latest is not the longest
C7_Witness ==
    /\ pc = "loop"
    /\ Cardinality(lenGs) >= 2
    /\ Len(optGs) < Len(bestGs)

\* an attempt ends with the length of the recorded best result
Tie == pc = "attemptEnd" /\ "bestGs" \in bound /\ Len(addGs) = Len(bestGs)

\* C8 as claimed: a later attempt of the same length leaves the best result as it was.
C8_TieKeepsEarlier ==
    [][Tie => (bestGs' = bestGs /\ bestcorrs' = bestcorrs)]_vars

\* C8 amended. An attempt at least as long as the recorded best result (a tie
\* included) replaces it, sequence and trace; a shorter one leaves it unchanged;
\* so on giving up the returned pair is that of the last attempt that achieved
\* the maximum length.
C8_TieKeepsLater ==
    [][pc = "attemptEnd" =>
          /\ IF "bestGs" \notin bound \/ Len(addGs) >= Len(bestGs)
             THEN bestGs' = addGs /\ bestcorrs' = addCorrs
             ELSE bestGs' = bestGs /\ bestcorrs' = bestcorrs
          /\ count = Cap => (optGs' = bestGs' /\ corrs' = bestcorrs')]_vars

\* the last allowed attempt ties with a recorded best result that is another sequence
C8_Witness ==
    /\ Tie
    /\ count = Cap
    /\ addGs # bestGs

C10_SuccessReturn ==
    Len(addGs) >= leng =>
        /\ pc # "raised"
        /\ pc \in {"loop", "return", "done"} => (optGs = addGs /\ corrs = addCorrs)

\* shufGen returns the result of attempt number 1000, which reached the target
C10_Witness ==
    /\ Returned
    /\ variant = "pooled"
    /\ count = 1000
    /\ Len(optGs) >= leng

\* C11 (trace alignment): at the end of every round of every attempt, and for
\* every pair recorded as best or returned, the trace has one entry for the
\* seed and one per element after it: len(trace) = 1 + (len(sequence) - n).
C11_TraceAlignment ==
    /\ pc \in {"roundEnd", "round", "attemptEnd"}
          => Len(addCorrs) = 1 + (Len(addGs) - n)
    /\ "bestGs" \in bound => Len(bestcorrs) = 1 + (Len(bestGs) - n)
    /\ Returned => Len(corrs) = 1 + (Len(optGs) - n)

C11_Witness ==
    /\ pc = "roundEnd"
    /\ Cardinality(kept) >= 2
    /\ "bestGs" \in bound
    /\ Len(bestGs) > n
    /\ Len(addGs) # Len(bestGs)

\* C12 (seed correlation): once the seed loop has exited, the seed is a
\* permutation of the n pool values whose coefficient against 1..n is at most
\* 0.01 in absolute value, and it is the first n elements of the sequence of
\* every attempt, of the recorded best and of the returned sequence.
SeedFixed == pc # "seed" /\ optGs # <<>>

C12_SeedCorrelation ==
    SeedFixed =>
        /\ Len(start) = n
        /\ Range(start) = Range(Mono(n))
        /\ LET r == pearsonr(phase(n), start)
           IN r.den > 0 /\ r.num * r.num <= r.den \div (100 * 100)
        /\ SubSeq(optGs, 1, n) = start
        /\ count > 0 => SubSeq(addGs, 1, n) = start
        /\ "bestGs" \in bound => SubSeq(bestGs, 1, n) = start

C12_Witness ==
    /\ Returned
    /\ variant = "alt"
    /\ count >= 2
    /\ Len(optGs) >= leng
    /\ Len(optGs) > n

\* C13 (stall policy): an attempt stops at the end of the first round that
\* kept no element; no round is started after a round that kept none.
C13_StallPolicy ==
    [][(pc = "roundEnd" /\ kept = {}) => pc' = "attemptEnd"]_vars

\* C14 (attempt isolation): every attempt starts from the seed and a trace
\* holding only the seed's coefficient; nothing after the seed loop changes
\* the seed; a running attempt changes neither the previous attempt's pair
\* nor the recorded best; an attempt that ends shorter leaves the best alone.
C14_AttemptIsolation ==
    [][/\ pc # "seed" => start' = start
       /\ (pc = "loop" /\ pc' = "round")
             => /\ addGs' = start
                /\ addCorrs' = <<pearsonr(phase(n), start)>>
       /\ pc \in {"round", "scan", "decide", "roundEnd"}
             => UNCHANGED <<optGs, corrs, bestGs, bestcorrs>>
       /\ (pc = "attemptEnd" /\ "bestGs" \in bound /\ Len(addGs) < Len(bestGs))
             => UNCHANGED <<bestGs, bestcorrs>>]_vars

C14_Witness ==
    /\ pc = "attemptEnd"
    /\ "bestGs" \in bound
    /\ Len(addGs) < Len(bestGs)
    /\ Len(addGs) > n
    /\ optGs # bestGs

\* C15 (seed search liveness): for every window size n >= 4 (even n for the
\* alternating variant) some list the seed loop can produce has a coefficient
\* of at most 0.01 in absolute value, so the uncapped seed loop can exit.
C15_SeedExists ==
    (pc = "seed" /\ n >= 4 /\ (variant = "alt" => n % 2 = 0))
        => \E p \in SeedCandidates :
              LET r == pearsonr(phase(n), p)
              IN r.den > 0 /\ r.num * r.num <= r.den \div (100 * 100)

\* C16 (window invariant at every point): in every state of an attempt,
\* the states between a tentative append and its decision included, the
\* last n elements have a coefficient below the variant's threshold
\* (0.1 pooled, 0.05 alternating) in absolute value.
InAttempt == pc \in {"round", "scan", "decide", "roundEnd", "attemptEnd"}

LastWindowLow ==
    AbsLt(pearsonr(phase(n), LastK(addGs, n)),
          IF variant = "pooled" THEN 10 ELSE 20)

C16_WindowEverywhere == (InAttempt /\ Len(addGs) >= n) => LastWindowLow

\* C16 as it holds: the same, in every state of an attempt other than those
\* between a tentative append and its decision.
C16_WindowSettled ==
    (InAttempt /\ pc # "decide" /\ Len(addGs) >= n) => LastWindowLow

C16_Witness ==
    /\ pc = "scan"
    /\ kept # {}
    /\ Len(addGs) > n
    /\ shuf # {}

\* C17 (trace content): in a returned pair, entry k of the trace is the
\* coefficient of the k-th window of the sequence and entry 0 is the seed's;
\* an entry is the value computed when its element was kept and is never
\* altered afterwards.
C17_TraceContent ==
    /\ [](Returned => (corrs = Windows(optGs)
                       /\ corrs[1] = pearsonr(phase(n), start)))
    /\ [][(pc = "decide" /\ adds' = adds + 1)
             => (Len(addCorrs') = Len(addGs) - n + 1
                 /\ addCorrs'[Len(addCorrs')] = pearsonr(phase(n), LastK(addGs, n)))]_vars
    /\ [][(pc \in {"round", "scan", "decide", "roundEnd"})
             => (Len(addCorrs') >= Len(addCorrs)
                 /\ SubSeq(addCorrs', 1, Len(addCorrs)) = addCorrs)]_vars
    /\ [][(pc \in {"return", "done"}) => UNCHANGED <<optGs, corrs>>]_vars

C17_Witness ==
    /\ Returned
    /\ Len(corrs) >= 3
    /\ corrs[2] # corrs[3]

\* C18 (alternating round structure): in a round of altshufAdd at most one
\* value of the low half and at most one of the high half is kept, the low
\* half is scanned before the high half, and once a value of a half has been
\* kept no further value of that half is tried in the round.
HalfValues == IF half = 1 THEN Range(small(n)) ELSE Range(big(n))

C18_AltRounds ==
    /\ []((variant = "alt" /\ pc \in {"scan", "decide", "roundEnd"})
             => /\ Cardinality(kept \cap Range(small(n))) <= 1
                /\ Cardinality(kept \cap Range(big(n))) <= 1
                /\ Cardinality(kept) <= 2
                /\ half = 1 => kept \cap Range(big(n)) = {})
    /\ [][(variant = "alt" /\ pc = "round" /\ pc' = "scan") => half' = 1]_vars
    /\ [][(variant = "alt" /\ pc \in {"scan", "decide"}) => half' >= half]_vars
    /\ [][(variant = "alt" /\ pc = "scan" /\ pc' = "decide")
             => addGs'[Len(addGs')] \in HalfValues]_vars
    /\ [][(variant = "alt" /\ pc = "scan" /\ kept \cap HalfValues # {})
             => (addGs' = addGs /\ pc' # "decide")]_vars

C18_Witness ==
    /\ variant = "alt"
    /\ pc = "roundEnd"
    /\ Cardinality(kept) = 2
    /\ addCount >= 2

\* C19 (stall counters): an attempt that ends through the stall break kept
\* nothing in its final round; throughout the attempt rounds <= accepted + 1
\* and accepted = len(sequence) - n; an attempt runs at most leng - n rounds.
StallBreak == pc = "roundEnd" /\ addCount > adds

C19_StallCounters ==
    InAttempt =>
        /\ StallBreak => kept = {}
        /\ addCount <= adds + 1
        /\ adds = Len(addGs) - n
        /\ addCount <= leng - n

\* C19 as it holds: the same, the accepted count being one behind the length
\* while a tentatively appended element awaits its decision.
C19_StallCountersSettled ==
    InAttempt =>
        /\ StallBreak => kept = {}
        /\ addCount <= adds + 1
        /\ adds = Len(addGs) - n - (IF pc = "decide" THEN 1 ELSE 0)
        /\ addCount <= leng - n

C19_Witness ==
    /\ pc = "attemptEnd"
    /\ addCount > adds
    /\ adds >= 2
    /\ Len(addGs) < leng

\* C20 (overshoot bound): the scan does not re-test the target length, so a
\* list can end longer than leng, but never longer than leng + n - 1 (pooled)
\* or leng + 1 (alternating).
Overshoot == IF variant = "pooled" THEN n - 1 ELSE 1

C20_OvershootBound ==
    /\ InAttempt => Len(addGs) <= leng + Overshoot
    /\ pc \in {"loop", "return", "done"} => Len(optGs) <= leng + Overshoot
    /\ Len(bestGs) <= leng + Overshoot

C20_Witness ==
    /\ Returned
    /\ variant = "alt"
    /\ Len(optGs) = leng + 1
====
